---- MODULE Spec2Model ----
(***************************************************************************)
(* Verification model of the job board: the snippet sanitizer, the job     *)
(* normalizer and its sort, the stats aggregator (src/lib/jobs.ts) and the *)
(* filter state of JobExplorer (src/components/JobExplorer.tsx).           *)
(*                                                                         *)
(* A JavaScript string is a sequence of one-character strings (one UTF-16  *)
(* code unit each), so that split/join, the regular expressions, slice and *)
(* length are computed character by character as the code computes them.   *)
(***************************************************************************)
EXTENDS Integers, Sequences, FiniteSets

VARIABLES
    phase,          \* position of the run: which call has been made so far
    snippet,        \* the argument handed to cleanSnippet
    result,         \* what cleanSnippet returned for it
    rawJobs,        \* jobsData: the raw records of jobs.json
    jobs,           \* what getJobs returned
    stats,          \* what getJobStats returned
    country,        \* JobExplorer state: the country selection
    jobType,        \* JobExplorer state: the job type selection
    visaStatus,     \* JobExplorer state: the visa status selection
    searchTerm,     \* JobExplorer state: the keyword
    filteredJobs,   \* JobExplorer: the memoised visible subset
    priorityJobs,   \* JobExplorer: the visa-mentioned group of the render
    otherJobs       \* JobExplorer: the other group of the render

vars == <<phase, snippet, result, rawJobs, jobs, stats, country, jobType,
          visaStatus, searchTerm, filteredJobs, priorityJobs, otherJobs>>

-----------------------------------------------------------------------------
(* Bounds of the model. *)

\* most tokens a short snippet is built from
MaxTokens == 3
\* most tokens set into a long snippet, around the slice point
MaxLongTokens == 1
\* how far before the slice point the tokens of a long snippet may start
PadWindow == 2
\* the length of a long snippet
LongLen == 300

-----------------------------------------------------------------------------
(* Strings. *)

LowerCase == <<"a", "b", "c", "d", "e", "f", "g", "h", "i", "j", "k", "l", "m",
               "n", "o", "p", "q", "r", "s", "t", "u", "v", "w", "x", "y", "z">>
UpperCase == <<"A", "B", "C", "D", "E", "F", "G", "H", "I", "J", "K", "L", "M",
               "N", "O", "P", "Q", "R", "S", "T", "U", "V", "W", "X", "Y", "Z">>

\* JavaScript's undefined; no string, since a string's elements are single
\* characters.
Undefined == <<"undefined">>

\* The characters \s matches and trim() removes, among those of the model.
IsSpace(c) == c \in {" ", "\n"}

\* The lower-case form of a character (the /i flag, toLowerCase).
LowerOf ==
    [c \in {UpperCase[k] : k \in 1..Len(UpperCase)} |->
        LowerCase[CHOOSE k \in 1..Len(UpperCase) : UpperCase[k] = c]]

Lower(c) == IF c \in DOMAIN LowerOf THEN LowerOf[c] ELSE c

toLowerCase(s) == [k \in 1..Len(s) |-> Lower(s[k])]

\* The least number of a non-empty set of numbers.
Least(S) == CHOOSE x \in S : \A y \in S : x <= y

\* The greatest number of a non-empty set of numbers.
Greatest(S) == CHOOSE x \in S : \A y \in S : x >= y

\* Whether pat occurs in s at index i (1-based).
StartsWithAt(s, i, pat) ==
    /\ i + Len(pat) - 1 <= Len(s)
    /\ \A k \in 1..Len(pat) : s[i + k - 1] = pat[k]

\* The same, ignoring case.
StartsWithAtI(s, i, pat) ==
    /\ i + Len(pat) - 1 <= Len(s)
    /\ \A k \in 1..Len(pat) : Lower(s[i + k - 1]) = Lower(pat[k])

\* String.prototype.includes
includes(s, pat) == \E i \in 1..(Len(s) + 1) : StartsWithAt(s, i, pat)

\* s.split(entity).join(value): every leftmost, non-overlapping occurrence of
\* entity, scanning once from the left; the inserted text is not rescanned.
RECURSIVE SplitJoinFrom(_, _, _, _)
SplitJoinFrom(s, i, entity, value) ==
    LET found == {j \in i..Len(s) : StartsWithAt(s, j, entity)}
    IN  IF found = {} THEN SubSeq(s, i, Len(s))
        ELSE LET j == Least(found)
             IN  SubSeq(s, i, j - 1) \o value
                    \o SplitJoinFrom(s, j + Len(entity), entity, value)

SplitJoin(s, entity, value) == SplitJoinFrom(s, 1, entity, value)

\* The first index >= i of s holding a character that is not white space
\* (Len(s) + 1 when there is none).
SkipSpace(s, i) ==
    Least({j \in i..Len(s) : ~IsSpace(s[j])} \cup {Len(s) + 1})

\* The first index >= i of s holding ">" (Len(s) + 1 when there is none).
FindClose(s, i) ==
    Least({j \in i..Len(s) : s[j] = ">"} \cup {Len(s) + 1})

\* /<br\s*\/?>/i at index i: the length of the match, 0 when there is none.
MatchBr(s, i) ==
    IF ~StartsWithAtI(s, i, <<"<", "b", "r">>) THEN 0
    ELSE LET j == SkipSpace(s, i + 3)
         IN  IF StartsWithAt(s, j, <<"/", ">">>) THEN j + 2 - i
             ELSE IF StartsWithAt(s, j, <<">">>) THEN j + 1 - i
             ELSE 0

\* /<\/?name>/i at index i: the length of the match, 0 when there is none.
MatchTag(s, i, name) ==
    IF StartsWithAtI(s, i, <<"<", "/">> \o name \o <<">">>)
    THEN Len(name) + 3
    ELSE IF StartsWithAtI(s, i, <<"<">> \o name \o <<">">>)
    THEN Len(name) + 2
    ELSE 0

\* [^>]+> from index k: the index after the match, 0 when there is none.
BodyEnd(s, k) ==
    LET c == FindClose(s, k)
    IN  IF c > k /\ c <= Len(s) THEN c + 1 ELSE 0

\* /<\/?[^>]+>/ at index i: the length of the match, 0 when there is none.
\* The optional slash is tried first and given back when the rest fails.
MatchAny(s, i) ==
    IF ~StartsWithAt(s, i, <<"<">>) THEN 0
    ELSE LET withSlash == IF StartsWithAt(s, i + 1, <<"/">>)
                          THEN BodyEnd(s, i + 2) ELSE 0
             without == BodyEnd(s, i + 1)
         IN  IF withSlash # 0 THEN withSlash - i
             ELSE IF without # 0 THEN without - i
             ELSE 0

\* The regular expressions of cleanSnippet, by name; each starts with "<".
MatchLen(re, s, i) ==
    IF s[i] # "<" THEN 0
    ELSE CASE re = "br"     -> MatchBr(s, i)
           [] re = "li"     -> MatchTag(s, i, <<"l", "i">>)
           [] re = "strong" -> MatchTag(s, i, <<"s", "t", "r", "o", "n", "g">>)
           [] re = "em"     -> MatchTag(s, i, <<"e", "m">>)
           [] re = "p"      -> MatchTag(s, i, <<"p">>)
           [] re = "ul"     -> MatchTag(s, i, <<"u", "l">>)
           [] re = "any"    -> MatchAny(s, i)

\* s.replace(/re/g, value): every leftmost, non-overlapping match.
RECURSIVE ReplaceFrom(_, _, _, _)
ReplaceFrom(s, i, re, value) ==
    LET found == {j \in i..Len(s) : MatchLen(re, s, j) > 0}
    IN  IF found = {} THEN SubSeq(s, i, Len(s))
        ELSE LET j == Least(found)
             IN  SubSeq(s, i, j - 1) \o value
                    \o ReplaceFrom(s, j + MatchLen(re, s, j), re, value)

Replace(s, re, value) == ReplaceFrom(s, 1, re, value)

\* s.replace(/\s+/g, " ")
RECURSIVE CollapseFrom(_, _)
CollapseFrom(s, i) ==
    LET found == {j \in i..Len(s) : IsSpace(s[j])}
    IN  IF found = {} THEN SubSeq(s, i, Len(s))
        ELSE LET j == Least(found)
             IN  SubSeq(s, i, j - 1) \o <<" ">>
                    \o CollapseFrom(s, SkipSpace(s, j))

CollapseSpace(s) == CollapseFrom(s, 1)

\* The last index <= i of s holding a character that is not white space
\* (0 when there is none).
SkipSpaceBack(s, i) ==
    Greatest({j \in 1..i : ~IsSpace(s[j])} \cup {0})

\* String.prototype.trim
trim(s) ==
    LET a == SkipSpace(s, 1)
        b == SkipSpaceBack(s, Len(s))
    IN  IF a > b THEN <<>> ELSE SubSeq(s, a, b)

\* s.slice(0, n)
slice(s, n) == SubSeq(s, 1, IF n < Len(s) THEN n ELSE Len(s))

\* The UTF-16 code unit of a letter or a blank.
CodeOf ==
    [c \in {UpperCase[k] : k \in 1..Len(UpperCase)}
            \cup {LowerCase[k] : k \in 1..Len(LowerCase)} |->
        IF \E k \in 1..Len(UpperCase) : UpperCase[k] = c
        THEN 64 + (CHOOSE k \in 1..Len(UpperCase) : UpperCase[k] = c)
        ELSE 96 + (CHOOSE k \in 1..Len(LowerCase) : LowerCase[k] = c)]

CharCode(c) == IF c \in DOMAIN CodeOf THEN CodeOf[c] ELSE 32

\* The comparison of two sequences of numbers, first difference first, a
\* proper prefix before the longer sequence: negative, zero or positive.
LexCompare(x, y) ==
    LET n == IF Len(x) < Len(y) THEN Len(x) ELSE Len(y)
        diff == {k \in 1..n : x[k] # y[k]}
    IN  IF diff # {} THEN x[Least(diff)] - y[Least(diff)]
        ELSE Len(x) - Len(y)

\* The comparison Array.prototype.sort makes without a comparator: by code
\* units.
compareCodeUnits(a, b) ==
    LexCompare([k \in 1..Len(a) |-> CharCode(a[k])],
               [k \in 1..Len(b) |-> CharCode(b[k])])

\* String.prototype.localeCompare on words of unaccented letters: by the
\* letters whatever their case, and between words of the same letters the
\* lower-case letter first at the first difference of case.
localeCompare(a, b) ==
    LET letters(w) == [k \in 1..Len(w) |-> CharCode(Lower(w[k]))]
        cases(w) == [k \in 1..Len(w) |-> IF Lower(w[k]) = w[k] THEN 0 ELSE 1]
        byLetter == LexCompare(letters(a), letters(b))
    IN  IF byLetter # 0 THEN byLetter ELSE LexCompare(cases(a), cases(b))

-----------------------------------------------------------------------------
(* src/lib/jobs.ts: cleanSnippet *)

\* The characters U+2026 (horizontal ellipsis) and U+2022 (bullet), one code
\* unit each, under names.
Ellipsis == "ELLIPSIS"
Bullet == "BULLET"

MaxSnippetLen == 220
SliceLen == 217

\* HTML_ENTITIES without the entries of the two angle brackets.
HTML_ENTITIES_NoBrackets == <<
    << <<"&", "n", "b", "s", "p", ";">>, <<" ">> >>,
    << <<"&", "a", "m", "p", ";">>,      <<"&">> >>,
    << <<"&", "q", "u", "o", "t", ";">>, <<"\"">> >>,
    << <<"&", "#", "3", "9", ";">>,      <<"'">> >> >>

\* Object.entries(HTML_ENTITIES), in insertion order.
HTML_ENTITIES == <<
    << <<"&", "n", "b", "s", "p", ";">>, <<" ">> >>,
    << <<"&", "a", "m", "p", ";">>,      <<"&">> >>,
    << <<"&", "l", "t", ";">>,           <<"<">> >>,
    << <<"&", "g", "t", ";">>,           <<">">> >>,
    << <<"&", "q", "u", "o", "t", ";">>, <<"\"">> >>,
    << <<"&", "#", "3", "9", ";">>,      <<"'">> >> >>

\* The for loop over the entities, from the k-th on.
RECURSIVE DecodeFrom(_, _)
DecodeFrom(s, k) ==
    IF k > Len(HTML_ENTITIES) THEN s
    ELSE DecodeFrom(SplitJoin(s, HTML_ENTITIES[k][1], HTML_ENTITIES[k][2]), k + 1)

DecodeEntities(s) == DecodeFrom(s, 1)

\* ReplaceTags without its last replacement, the one of the unknown tags.
ReplaceTagsKnownOnly(s) ==
    LET r1 == Replace(s, "br", <<" ">>)
        r2 == Replace(r1, "li", <<" ", Bullet, " ">>)
        r3 == Replace(r2, "strong", <<>>)
        r4 == Replace(r3, "em", <<>>)
        r5 == Replace(r4, "p", <<" ">>)
    IN  Replace(r5, "ul", <<" ">>)

\* The seven tag replacements, in the order of the code.
ReplaceTags(s) ==
    LET r1 == Replace(s, "br", <<" ">>)
        r2 == Replace(r1, "li", <<" ", Bullet, " ">>)
        r3 == Replace(r2, "strong", <<>>)
        r4 == Replace(r3, "em", <<>>)
        r5 == Replace(r4, "p", <<" ">>)
        r6 == Replace(r5, "ul", <<" ">>)
    IN  Replace(r6, "any", <<" ">>)

\* Truncate without the trim of the prefix it keeps.
TruncateNoTrim(s) ==
    IF Len(s) > MaxSnippetLen
    THEN slice(s, SliceLen) \o <<Ellipsis>>
    ELSE s

\* The final conditional: the 220-character budget.
Truncate(s) ==
    IF Len(s) > MaxSnippetLen
    THEN trim(slice(s, SliceLen)) \o <<Ellipsis>>
    ELSE s

\* cleanSnippet with the tags replaced before the entities are decoded.
cleanSnippetTagsFirst(snip) ==
    IF snip = Undefined \/ snip = <<>> THEN Undefined
    ELSE LET r == trim(CollapseSpace(DecodeEntities(ReplaceTags(snip))))
         IN  IF r = <<>> THEN Undefined ELSE Truncate(r)

cleanSnippet(snip) ==
    IF snip = Undefined \/ snip = <<>> THEN Undefined
    ELSE LET r == trim(CollapseSpace(ReplaceTags(DecodeEntities(snip))))
         IN  IF r = <<>> THEN Undefined ELSE Truncate(r)

-----------------------------------------------------------------------------
(* The snippets the sanitizer is run on. *)

\* The pieces snippets are built from: the six entities, fragments that an
\* entity decodes into another entity with, tag delimiters, tag names (one
\* with a capital), white space and text.
Tokens == {
    <<"&", "n", "b", "s", "p", ";">>,
    <<"&", "a", "m", "p", ";">>,
    <<"&", "l", "t", ";">>,
    <<"&", "g", "t", ";">>,
    <<"&", "q", "u", "o", "t", ";">>,
    <<"&", "#", "3", "9", ";">>,
    <<"a", "m", "p", ";">>,
    <<"l", "t", ";">>,
    <<"<">>,
    <<"<", "/">>,
    <<">">>,
    <<"/", ">">>,
    <<"B", "r">>,
    <<"l", "i">>,
    <<"s", "t", "r", "o", "n", "g">>,
    <<"e", "m">>,
    <<"p">>,
    <<" ">>,
    <<"\n">> }

TokenSeqs(n) == UNION {[1..k -> Tokens] : k \in 0..n}

RECURSIVE Flatten(_)
Flatten(ts) == IF ts = <<>> THEN <<>> ELSE Head(ts) \o Flatten(Tail(ts))

\* n characters of plain text.
Fill(n) == [k \in 1..n |-> "x"]

ShortSnippets == {Flatten(ts) : ts \in TokenSeqs(MaxTokens)}

\* Long snippets: plain text with tokens set in near the slice point.
LongSnippets ==
    {LET head == Fill(pre) \o Flatten(ts)
     IN  head \o Fill(LongLen - Len(head)) :
        pre \in (SliceLen - PadWindow)..SliceLen, ts \in TokenSeqs(MaxLongTokens)}

Snippets == {Undefined} \cup ShortSnippets \cup LongSnippets

-----------------------------------------------------------------------------
(* The sanitizer run on one snippet. *)

NoJobs == <<>>
NoStats == [total |-> 0, visaMentioned |-> 0, visaNotMentioned |-> 0,
            countries |-> <<>>, jobTypes |-> <<>>]
All == <<"A", "l", "l">>

\* The variables of the page, while no page is rendered.
NoPage ==
    /\ rawJobs = NoJobs
    /\ jobs = NoJobs
    /\ stats = NoStats
    /\ country = All
    /\ jobType = All
    /\ visaStatus = All
    /\ searchTerm = <<>>
    /\ filteredJobs = NoJobs
    /\ priorityJobs = NoJobs
    /\ otherJobs = NoJobs

pageVars == <<rawJobs, jobs, stats, country, jobType, visaStatus, searchTerm,
              filteredJobs, priorityJobs, otherJobs>>

InitSnippet ==
    /\ phase = "snippet"
    /\ snippet \in Snippets
    /\ result = Undefined
    /\ NoPage

\* cleanSnippet(snippet)
CleanSnippet ==
    /\ phase = "snippet"
    /\ result' = cleanSnippet(snippet)
    /\ phase' = "cleaned"
    /\ UNCHANGED <<snippet, pageVars>>

NextSnippet == CleanSnippet

SpecSnippet == InitSnippet /\ [][NextSnippet]_vars

-----------------------------------------------------------------------------
(* Claims about the sanitizer, checked under SpecSnippet. *)

Chars(s) == {s[k] : k \in 1..Len(s)}

Cleaned == phase = "cleaned" /\ snippet # Undefined

\* A "<", then one or more characters other than ">", then a ">", from i.
TagAt(s, i) ==
    /\ s[i] = "<"
    /\ \E j \in (i + 2)..Len(s) :
          s[j] = ">" /\ \A k \in (i + 1)..(j - 1) : s[k] # ">"

EntityFree(s) ==
    \A e \in 1..Len(HTML_ENTITIES) : ~includes(s, HTML_ENTITIES[e][1])

\* C1 as stated: a sanitized snippet, when present, holds neither the
\* character "<" nor the character ">".
C1_NoAngleBrackets ==
    (Cleaned /\ result # Undefined) => Chars(result) \cap {"<", ">"} = {}

\* C1, amended: a sanitized snippet, when present, holds no tag, that is no
\* "<" followed by one or more characters other than ">" and then a ">";
\* a "<" or ">" that is part of no such tag is kept.
C1_NoTagInOutput ==
    (Cleaned /\ result # Undefined) =>
        \A i \in 1..Len(result) : ~TagAt(result, i)

\* C1 witness: a tag was replaced and an angle bracket outside it survived.
C1_Witness ==
    /\ Cleaned
    /\ result # Undefined
    /\ \E i \in 1..Len(snippet) : TagAt(snippet, i)
    /\ Chars(result) \cap {"<", ">"} # {}

\* C2 as stated: sanitizing a sanitized snippet changes nothing.
C2_Idempotent == Cleaned => cleanSnippet(result) = result

\* C2, amended: sanitizing a sanitized snippet changes nothing provided the
\* sanitized snippet holds none of the six entity references (which the
\* first pass can leave behind, "&amp;amp;" becoming "&amp;").
C2_IdempotentEntityFree ==
    (Cleaned /\ EntityFree(result)) => cleanSnippet(result) = result

\* C2 witness: the first pass changed the snippet, to a text without entity
\* references, which a second pass keeps.
C2_Witness ==
    /\ Cleaned
    /\ result # Undefined
    /\ result # snippet
    /\ "&" \in Chars(result)
    /\ EntityFree(result)
    /\ cleanSnippet(result) = result

\* The snippet with "&lt;" and "&gt;" written as the characters they encode.
Literal(s) ==
    SplitJoin(SplitJoin(s, <<"&", "l", "t", ";">>, <<"<">>),
              <<"&", "g", "t", ";">>, <<">">>)

EncodedBr == <<"&", "l", "t", ";", "B", "r", "&", "g", "t", ";">>

\* C3 as stated: in a snippet without a literal "<" or ">", encoded markup
\* is not taken for markup, so the tag replacements leave the decoded text
\* as it is.
C3_EncodedTagsKept ==
    (Cleaned /\ Chars(snippet) \cap {"<", ">"} = {}) =>
        ReplaceTags(DecodeEntities(snippet)) = DecodeEntities(snippet)

\* C3, amended: the entities are decoded before the tags are replaced, so
\* encoded markup is taken for markup exactly as literal markup is: a
\* snippet sanitizes to what it sanitizes to with every "&lt;" and "&gt;"
\* written as "<" and ">" ("&lt;br&gt;" is replaced by a space as "<br>" is).
C3_EncodedTagsAreTags ==
    Cleaned => result = cleanSnippet(Literal(snippet))

\* C3 witness: the encoded line break alone, sanitized to nothing.
C3_Witness ==
    /\ Cleaned
    /\ snippet = EncodedBr
    /\ result = Undefined

\* Text without "<", ">" or "&".
NoMarkup(s) == Chars(s) \cap {"<", ">", "&"} = {}

\* White space in s is single blanks between other characters.
SingleBlanks(s) ==
    /\ "\n" \notin Chars(s)
    /\ s[1] # " " /\ s[Len(s)] # " "
    /\ \A k \in 1..(Len(s) - 1) : ~(s[k] = " " /\ s[k + 1] = " ")

\* C4 as stated: a long snippet without markup sanitizes to its first 217
\* characters and an ellipsis, 218 characters.
C4_Exactly218 ==
    (Cleaned /\ Len(snippet) = LongLen /\ NoMarkup(snippet)) =>
        /\ Len(result) = SliceLen + 1
        /\ result = SubSeq(snippet, 1, SliceLen) \o <<Ellipsis>>

\* C4, amended: a long snippet without markup or entity references whose
\* white space is single blanks between other characters sanitizes to its
\* first 217 characters and an ellipsis, 218 characters, unless its 217th
\* character is a blank, which is dropped: then to its first 216 characters
\* and an ellipsis, 217 characters.
C4_TruncatedAndTrimmed ==
    (Cleaned /\ Len(snippet) = LongLen /\ NoMarkup(snippet)
        /\ SingleBlanks(snippet)) =>
        LET kept == IF snippet[SliceLen] = " " THEN SliceLen - 1 ELSE SliceLen
        IN  /\ result = SubSeq(snippet, 1, kept) \o <<Ellipsis>>
            /\ Len(result) = kept + 1

\* C4 witness: such a snippet, with a blank in it, cut to 218 characters.
C4_Witness ==
    /\ Cleaned
    /\ Len(snippet) = LongLen
    /\ NoMarkup(snippet)
    /\ SingleBlanks(snippet)
    /\ " " \in Chars(snippet)
    /\ Len(result) = SliceLen + 1

-----------------------------------------------------------------------------
(* src/lib/jobs.ts: getJobs and getJobStats *)

\* most records of jobs.json, for the normalizer and the aggregator
MaxJobs == 3
\* most records of jobs.json, for the page with its filters
MaxPageJobs == 3

Mentioned == <<"M", "e", "n", "t", "i", "o", "n", "e", "d">>
NotMentioned == <<"N", "o", "t", " ", "m", "e", "n", "t", "i", "o", "n", "e", "d">>
VisaStatus == {Mentioned, NotMentioned}

\* job => ({...}) of getJobs: the fields renamed, the snippet sanitized.
MapJob(job) ==
    [title       |-> job.title,
     company     |-> job.company,
     country     |-> job.country,
     location    |-> job.location,
     visaStatus  |-> job.visa_status,
     visaSnippet |-> cleanSnippet(job.visa_snippet),
     jobType     |-> job.job_type,
     reason      |-> job.reason,
     link        |-> job.link,
     source      |-> job.source]

\* compareJobs with the sign of the visa status comparison turned round.
compareJobsVisaLast(a, b) ==
    IF a.visaStatus # b.visaStatus
    THEN (IF a.visaStatus = Mentioned THEN 1 ELSE -1)
    ELSE IF a.country # b.country
    THEN localeCompare(a.country, b.country)
    ELSE localeCompare(a.company, b.company)

\* compareJobs with the country compared before the visa status.
compareJobsCountryFirst(a, b) ==
    IF a.country # b.country
    THEN localeCompare(a.country, b.country)
    ELSE IF a.visaStatus # b.visaStatus
    THEN (IF a.visaStatus = Mentioned THEN -1 ELSE 1)
    ELSE localeCompare(a.company, b.company)

\* The comparator handed to mapped.sort.
compareJobs(a, b) ==
    IF a.visaStatus # b.visaStatus
    THEN (IF a.visaStatus = Mentioned THEN -1 ELSE 1)
    ELSE IF a.country # b.country
    THEN localeCompare(a.country, b.country)
    ELSE localeCompare(a.company, b.company)

\* The comparison a sort makes: the comparator it was given, or code units.
Compare(by, a, b) ==
    IF by = "compareJobs" THEN compareJobs(a, b) ELSE compareCodeUnits(a, b)

\* InsertSorted putting x before the elements it compares equal to.
InsertSortedUnstable(sorted, x, by) ==
    LET after == {k \in 1..Len(sorted) : Compare(by, sorted[k], x) >= 0}
        at == IF after = {} THEN Len(sorted) + 1 ELSE Least(after)
    IN  SubSeq(sorted, 1, at - 1) \o <<x>> \o SubSeq(sorted, at, Len(sorted))

\* One step of Array.prototype.sort, a stable sort: x is put into the sorted
\* elements that came before it, after every one it is not less than.
InsertSorted(sorted, x, by) ==
    LET after == {k \in 1..Len(sorted) : Compare(by, sorted[k], x) > 0}
        at == IF after = {} THEN Len(sorted) + 1 ELSE Least(after)
    IN  SubSeq(sorted, 1, at - 1) \o <<x>> \o SubSeq(sorted, at, Len(sorted))

\* Array.prototype.sort on the first n elements of arr.
RECURSIVE SortFirst(_, _, _)
SortFirst(arr, n, by) ==
    IF n = 0 THEN <<>>
    ELSE InsertSorted(SortFirst(arr, n - 1, by), arr[n], by)

sort(arr, by) == SortFirst(arr, Len(arr), by)

\* getJobs, of jobsData = raw.
getJobs(raw) ==
    LET mapped == [k \in 1..Len(raw) |-> MapJob(raw[k])]
    IN  sort(mapped, "compareJobs")

\* Array.prototype.filter with job => job.visaStatus === status
FilterVisa(list, status) ==
    SelectSeq(list, LAMBDA job : job.visaStatus = status)

\* Array.prototype.filter with job => job.visaStatus !== status
FilterNotVisa(list, status) ==
    SelectSeq(list, LAMBDA job : job.visaStatus # status)

\* Array.from(new Set(values)) keeping every value, repeated ones too.
DistinctKeepAll(values) == values

\* Array.from(new Set(values)): the values in the order of their first
\* occurrence, each once.
Distinct(values) ==
    LET first == {k \in 1..Len(values) :
                    \A j \in 1..(k - 1) : values[j] # values[k]}
        nth(n) == CHOOSE k \in first :
                    Cardinality({j \in first : j < k}) = n - 1
    IN  [n \in 1..Cardinality(first) |-> values[nth(n)]]

\* getJobStats counting the jobs that do not mention a visa as mentioned.
getJobStatsCountOthers(list) ==
    LET visaMentioned == Len(FilterNotVisa(list, Mentioned))
    IN  [total            |-> Len(list),
         visaMentioned    |-> visaMentioned,
         visaNotMentioned |-> Len(list) - visaMentioned,
         countries        |-> sort(Distinct([k \in 1..Len(list) |-> list[k].country]), "default"),
         jobTypes         |-> sort(Distinct([k \in 1..Len(list) |-> list[k].jobType]), "default")]

getJobStats(list) ==
    LET visaMentioned == Len(FilterVisa(list, Mentioned))
    IN  [total            |-> Len(list),
         visaMentioned    |-> visaMentioned,
         visaNotMentioned |-> Len(list) - visaMentioned,
         countries        |-> sort(Distinct([k \in 1..Len(list) |-> list[k].country]), "default"),
         jobTypes         |-> sort(Distinct([k \in 1..Len(list) |-> list[k].jobType]), "default")]

-----------------------------------------------------------------------------
(* The records of jobs.json. *)

Digits == <<"1", "2", "3", "4", "5", "6", "7", "8", "9">>

Countries == { <<"U", "K">>, <<"u", "a", "e">> }
Companies == { <<"A", "c", "m", "e">>, <<"a", "b">> }
JobTypes == { <<"V", "i", "d", "e", "o">>, <<"S", "E", "O">> }

\* What a posting that mentions a visa quotes, markup and entities included.
SnippetOf(status) ==
    IF status = Mentioned
    THEN <<"<", "e", "m", ">", "&", "a", "m", "p", ";">>
    ELSE Undefined

\* A record but for its link.
RawJob(company, ctry, status, type) ==
    [title        |-> type \o <<" ", "A", "d">>,
     company      |-> company,
     country      |-> ctry,
     location     |-> <<"c", "i", "t", "y">>,
     visa_status  |-> status,
     visa_snippet |-> SnippetOf(status),
     job_type     |-> type,
     reason       |-> <<"f", "i", "t">>,
     link         |-> <<>>,
     source       |-> <<"w", "e", "b">>]

RawJobPool ==
    {RawJob(c, k, v, t) : c \in Companies, k \in Countries, v \in VisaStatus,
                          t \in JobTypes}

\* The records of a file, each given the link of its place in the file:
\* links are unique.
WithLinks(records) ==
    [k \in 1..Len(records) |->
        [records[k] EXCEPT !.link = <<"/", Digits[k]>>]]

RawJobLists(pool, n) ==
    {WithLinks(records) : records \in UNION {[1..k -> pool] : k \in 0..n}}

-----------------------------------------------------------------------------
(* The page (src/app/page.tsx, Home) up to the stats. *)

NoSnippet ==
    /\ snippet = Undefined
    /\ result = Undefined

explorerVars == <<country, jobType, visaStatus, searchTerm, filteredJobs,
                  priorityJobs, otherJobs>>

InitJobs ==
    /\ phase = "load"
    /\ NoSnippet
    /\ rawJobs \in RawJobLists(RawJobPool, MaxJobs)
    /\ jobs = NoJobs
    /\ stats = NoStats
    /\ country = All
    /\ jobType = All
    /\ visaStatus = All
    /\ searchTerm = <<>>
    /\ filteredJobs = NoJobs
    /\ priorityJobs = NoJobs
    /\ otherJobs = NoJobs

\* const jobs = getJobs()
GetJobs ==
    /\ phase = "load"
    /\ jobs' = getJobs(rawJobs)
    /\ phase' = "jobs"
    /\ UNCHANGED <<snippet, result, rawJobs, stats, explorerVars>>

\* const stats = getJobStats(jobs)
GetJobStats ==
    /\ phase = "jobs"
    /\ stats' = getJobStats(jobs)
    /\ phase' = "stats"
    /\ UNCHANGED <<snippet, result, rawJobs, jobs, explorerVars>>

NextJobs == GetJobs \/ GetJobStats

SpecJobs == InitJobs /\ [][NextJobs]_vars

-----------------------------------------------------------------------------
(* src/components/JobExplorer.tsx: JobExplorer *)

\* JobPasses comparing the lower-cased keyword with the text as written.
JobPassesCaseSensitive(job, c, t, v, term) ==
    IF c # All /\ job.country # c THEN FALSE
    ELSE IF t # All /\ job.jobType # t THEN FALSE
    ELSE IF v # All /\ job.visaStatus # v THEN FALSE
    ELSE IF trim(term) # <<>>
    THEN LET haystack == job.title \o <<" ">> \o job.company \o <<" ">> \o job.reason
         IN  includes(haystack, toLowerCase(trim(term)))
    ELSE TRUE

\* The callback of jobs.filter in the useMemo, under the selections c, t, v
\* and the keyword term.
JobPasses(job, c, t, v, term) ==
    IF c # All /\ job.country # c THEN FALSE
    ELSE IF t # All /\ job.jobType # t THEN FALSE
    ELSE IF v # All /\ job.visaStatus # v THEN FALSE
    ELSE IF trim(term) # <<>>
    THEN LET haystack == toLowerCase(job.title \o <<" ">> \o job.company
                                        \o <<" ">> \o job.reason)
         IN  includes(haystack, toLowerCase(trim(term)))
    ELSE TRUE

\* jobs.filter(...) of the useMemo
FilterJobs(list, c, t, v, term) ==
    SelectSeq(list, LAMBDA job : JobPasses(job, c, t, v, term))

\* OtherJobs with the status misspelt in lower case, which no job has.
OtherJobsMisspelt(visible) == FilterNotVisa(visible, toLowerCase(Mentioned))

\* const priorityJobs = filteredJobs.filter(...)
PriorityJobs(visible) == FilterVisa(visible, Mentioned)

\* const otherJobs = filteredJobs.filter(...)
OtherJobs(visible) == FilterNotVisa(visible, Mentioned)

\* A render of JobExplorer under the selections c, t, v and the keyword
\* term: useMemo keeps the visible subset of the render before when no
\* dependency changed and computes it anew when one did; the two groups are
\* computed in every render.
Render(c, t, v, term) ==
    LET kept == /\ phase = "page"
                /\ <<c, t, v, term>> = <<country, jobType, visaStatus, searchTerm>>
        visible == IF kept THEN filteredJobs ELSE FilterJobs(jobs, c, t, v, term)
    IN  /\ filteredJobs' = visible
        /\ priorityJobs' = PriorityJobs(visible)
        /\ otherJobs' = OtherJobs(visible)

\* <JobExplorer jobs={jobs} countries={stats.countries} .../>: the first
\* render, every useState at its initial value.
Mount ==
    /\ phase = "stats"
    /\ phase' = "page"
    /\ country' = All
    /\ jobType' = All
    /\ visaStatus' = All
    /\ searchTerm' = <<>>
    /\ Render(All, All, All, <<>>)
    /\ UNCHANGED <<snippet, result, rawJobs, jobs, stats>>

Options(list) == {All} \cup {list[k] : k \in 1..Len(list)}

\* onChange of the country select: one of its options is chosen.
SetCountry ==
    /\ phase = "page"
    /\ \E option \in Options(stats.countries) :
          /\ country' = option
          /\ Render(option, jobType, visaStatus, searchTerm)
    /\ UNCHANGED <<phase, snippet, result, rawJobs, jobs, stats, jobType,
                   visaStatus, searchTerm>>

\* onChange of the role select
SetJobType ==
    /\ phase = "page"
    /\ \E option \in Options(stats.jobTypes) :
          /\ jobType' = option
          /\ Render(country, option, visaStatus, searchTerm)
    /\ UNCHANGED <<phase, snippet, result, rawJobs, jobs, stats, country,
                   visaStatus, searchTerm>>

\* onChange of the visa select: "All" or one of visaStatusOptions
SetVisaStatus ==
    /\ phase = "page"
    /\ \E option \in {All} \cup VisaStatus :
          /\ visaStatus' = option
          /\ Render(country, jobType, option, searchTerm)
    /\ UNCHANGED <<phase, snippet, result, rawJobs, jobs, stats, country,
                   jobType, searchTerm>>

\* What is typed into the keyword input: nothing, a blank, and between
\* blanks and in mixed case the end of a title with the start of a company.
Keywords == { <<>>, <<" ">>, <<" ", "E", "O", " ", "a", "D", " ", "A", " ">> }

\* onChange of the keyword input
SetSearchTerm ==
    /\ phase = "page"
    /\ \E typed \in Keywords :
          /\ searchTerm' = typed
          /\ Render(country, jobType, visaStatus, typed)
    /\ UNCHANGED <<phase, snippet, result, rawJobs, jobs, stats, country,
                   jobType, visaStatus>>

\* The records of the page: the company goes with the country, and the
\* video roles are in one country only.
PageJobPool ==
    LET uk == <<"U", "K">>
        company(k) == IF k = uk THEN <<"A", "c", "m", "e">> ELSE <<"a", "b">>
        all == {RawJob(company(k), k, v, t) :
                    k \in Countries, v \in VisaStatus, t \in JobTypes}
    IN  {job \in all : job.country = uk \/ job.job_type = <<"S", "E", "O">>}

InitPage ==
    /\ phase = "load"
    /\ NoSnippet
    /\ rawJobs \in RawJobLists(PageJobPool, MaxPageJobs)
    /\ jobs = NoJobs
    /\ stats = NoStats
    /\ country = All
    /\ jobType = All
    /\ visaStatus = All
    /\ searchTerm = <<>>
    /\ filteredJobs = NoJobs
    /\ priorityJobs = NoJobs
    /\ otherJobs = NoJobs

NextPage ==
    \/ GetJobs
    \/ GetJobStats
    \/ Mount
    \/ SetCountry
    \/ SetJobType
    \/ SetVisaStatus
    \/ SetSearchTerm

SpecPage == InitPage /\ [][NextPage]_vars

-----------------------------------------------------------------------------
(* Claims about the normalizer and the aggregator, checked under SpecJobs. *)

Sorted == phase \in {"jobs", "stats"}

\* job is raw with its fields renamed and its snippet sanitized.
Renamed(job, raw) ==
    /\ job.link = raw.link
    /\ job.title = raw.title
    /\ job.company = raw.company
    /\ job.country = raw.country
    /\ job.location = raw.location
    /\ job.visaStatus = raw.visa_status
    /\ job.visaSnippet = cleanSnippet(raw.visa_snippet)
    /\ job.jobType = raw.job_type
    /\ job.reason = raw.reason
    /\ job.source = raw.source

\* a is not greater than b by visa status ("Mentioned" first), then country,
\* then company, both in locale order.
NotGreater(a, b) ==
    LET rank(job) == IF job.visaStatus = Mentioned THEN 0 ELSE 1
    IN  \/ rank(a) < rank(b)
        \/ /\ rank(a) = rank(b)
           /\ \/ localeCompare(a.country, b.country) < 0
              \/ /\ a.country = b.country
                 /\ localeCompare(a.company, b.company) <= 0

\* C5: getJobs returns as many jobs as the file has records, each record
\* (they differ by their links) renamed exactly once among them, every job
\* not greater than the next by visa status, country and company.
C5_SortedPermutation ==
    Sorted =>
        /\ Len(jobs) = Len(rawJobs)
        /\ \A k \in 1..Len(rawJobs) :
              Cardinality({j \in 1..Len(jobs) : Renamed(jobs[j], rawJobs[k])}) = 1
        /\ \A k \in 1..(Len(jobs) - 1) : NotGreater(jobs[k], jobs[k + 1])

\* C5 witness: a file whose first record sorts last, with both visa
\* statuses and both countries in it.
C5_Witness ==
    /\ Sorted
    /\ Len(rawJobs) >= 3
    /\ jobs[Len(jobs)].link = rawJobs[1].link
    /\ {rawJobs[k].visa_status : k \in 1..Len(rawJobs)} = VisaStatus
    /\ {rawJobs[k].country : k \in 1..Len(rawJobs)} = Countries

\* The place of the job with this link in the sorted list.
PlaceOf(link) == CHOOSE k \in 1..Len(jobs) : jobs[k].link = link

SameKeys(a, b) ==
    /\ a.visa_status = b.visa_status
    /\ a.country = b.country
    /\ a.company = b.company

\* C6: two records with the same visa status, country and company come out
\* of getJobs in the order they have in the file.
C6_Stable ==
    Sorted =>
        \A a, b \in 1..Len(rawJobs) :
            (a < b /\ SameKeys(rawJobs[a], rawJobs[b])) =>
                PlaceOf(rawJobs[a].link) < PlaceOf(rawJobs[b].link)

\* C6 witness: two records with the same keys and a record between them in
\* the file that the sort moves before both.
C6_Witness ==
    /\ Sorted
    /\ \E a, b, c \in 1..Len(rawJobs) :
          /\ a < c /\ c < b
          /\ SameKeys(rawJobs[a], rawJobs[b])
          /\ PlaceOf(rawJobs[c].link) < PlaceOf(rawJobs[a].link)
          /\ PlaceOf(rawJobs[a].link) < PlaceOf(rawJobs[b].link)

\* C7: total is the length of the list, visaMentioned the number of its
\* jobs with the status "Mentioned", and the two counts add up to total.
C7_Counts ==
    phase = "stats" =>
        /\ stats.total = Len(jobs)
        /\ stats.visaMentioned =
              Cardinality({k \in 1..Len(jobs) : jobs[k].visaStatus = Mentioned})
        /\ stats.visaMentioned + stats.visaNotMentioned = stats.total

\* C7 witness: stats of a list with jobs of both statuses, more of one.
C7_Witness ==
    /\ phase = "stats"
    /\ stats.visaMentioned >= 1
    /\ stats.visaNotMentioned > stats.visaMentioned

\* values holds exactly the members of S, each once, in ascending order of
\* code units.
DistinctAscending(values, S) ==
    /\ {values[k] : k \in 1..Len(values)} = S
    /\ Len(values) = Cardinality(S)
    /\ \A k \in 1..(Len(values) - 1) :
          compareCodeUnits(values[k], values[k + 1]) < 0

\* C8: countries and jobTypes hold exactly the countries and the job types
\* of the list, each once, in ascending order.
C8_DistinctSorted ==
    phase = "stats" =>
        /\ DistinctAscending(stats.countries,
                             {jobs[k].country : k \in 1..Len(jobs)})
        /\ DistinctAscending(stats.jobTypes,
                             {jobs[k].jobType : k \in 1..Len(jobs)})

\* C8 witness: a list with a country repeated, whose countries and job
\* types do not first occur in their ascending order.
C8_Witness ==
    /\ phase = "stats"
    /\ Len(stats.countries) = 2
    /\ Len(stats.jobTypes) = 2
    /\ Len(jobs) > 2
    /\ jobs[1].country # stats.countries[1]
    /\ jobs[1].jobType # stats.jobTypes[1]

-----------------------------------------------------------------------------
(* Claims about JobExplorer, checked under SpecPage. *)

\* The four criteria under the current selections.
Visible(job) ==
    /\ country = All \/ job.country = country
    /\ jobType = All \/ job.jobType = jobType
    /\ visaStatus = All \/ job.visaStatus = visaStatus
    /\ \/ trim(searchTerm) = <<>>
       \/ includes(toLowerCase(job.title \o <<" ">> \o job.company
                                  \o <<" ">> \o job.reason),
                   toLowerCase(trim(searchTerm)))

\* sub holds elements of full, in the order they have in full (the jobs of
\* a list differ by their links).
InOrderOf(sub, full) ==
    \E at \in [1..Len(sub) -> 1..Len(full)] :
        /\ \A k \in 1..Len(sub) : sub[k] = full[at[k]]
        /\ \A k \in 1..(Len(sub) - 1) : at[k] < at[k + 1]

C10_Partition ==
    phase = "page" =>
        /\ Len(priorityJobs) + Len(otherJobs) = Len(filteredJobs)
        /\ \A a \in 1..Len(priorityJobs), b \in 1..Len(otherJobs) :
              priorityJobs[a] # otherJobs[b]
        /\ \A k \in 1..Len(filteredJobs) :
              IF filteredJobs[k].visaStatus = Mentioned
              THEN Cardinality({a \in 1..Len(priorityJobs) :
                                  priorityJobs[a] = filteredJobs[k]}) = 1
              ELSE Cardinality({b \in 1..Len(otherJobs) :
                                  otherJobs[b] = filteredJobs[k]}) = 1
        /\ InOrderOf(priorityJobs, filteredJobs)
        /\ InOrderOf(otherJobs, filteredJobs)

\* C10 witness: a visible subset under a selection, with one job in the
\* priority group and two in the other.
C10_Witness ==
    /\ phase = "page"
    /\ country # All
    /\ Len(filteredJobs) = 3
    /\ Len(priorityJobs) = 1
    /\ Len(otherJobs) = 2

\* C11: the list being the one getJobs returned, under every combination of
\* selections the priority group followed by the other group is the visible
\* subset itself, as a sequence: in the visible subset no job with the
\* status "Not mentioned" comes before a job with the status "Mentioned".
C11_GroupsConcatenate ==
    phase = "page" =>
        /\ jobs = getJobs(rawJobs)
        /\ priorityJobs \o otherJobs = filteredJobs
        /\ \A a \in 1..Len(filteredJobs), b \in 1..Len(filteredJobs) :
              (/\ filteredJobs[a].visaStatus = Mentioned
               /\ filteredJobs[b].visaStatus = NotMentioned) => a < b

\* C11 witness: jobs.json has a job that does not mention a visa before one
\* that does, a selection hides some job, and both of these are visible, in
\* different countries, one in each group.
C11_Witness ==
    /\ phase = "page"
    /\ jobType # All
    /\ Len(filteredJobs) < Len(jobs)
    /\ Len(priorityJobs) >= 1
    /\ Len(otherJobs) >= 1
    /\ \E a \in 1..Len(rawJobs), b \in 1..Len(rawJobs) :
          /\ a < b
          /\ rawJobs[a].visa_status = NotMentioned
          /\ rawJobs[b].visa_status = Mentioned
          /\ rawJobs[a].country # rawJobs[b].country
          /\ \E k \in 1..Len(otherJobs) : otherJobs[k].link = rawJobs[a].link
          /\ \E k \in 1..Len(priorityJobs) :
                priorityJobs[k].link = rawJobs[b].link

====
